---- MODULE Spec2Model ----
(***************************************************************************)
(* License-key issuance and verification service (server routes).          *)
(*                                                                         *)
(* The request handlers of the route file are async functions: every       *)
(* `await storage.X(...)` is a suspension point, so a handler is a         *)
(* sequence of steps, one per awaited storage operation together with the  *)
(* synchronous code that follows it up to the next await.  Handlers of     *)
(* different requests interleave at these points.                          *)
(*                                                                         *)
(* The storage object (Key Store, Device Registry, Credit Ledger) is       *)
(* imported from "./storage"; its operations are modelled from the         *)
(* contracts of the specification's sections 4.5, 4.6 and 6.               *)
(***************************************************************************)
EXTENDS Integers, Sequences, FiniteSets, TLC

(***************************************************************************)
(* Bounds of the model.                                                    *)
(***************************************************************************)
NumReqs == 2        \* requests that may be in flight together
NumDevices == 3     \* distinct device ids presented by clients
MaxTime == 2        \* the clock runs 0..MaxTime
MaxLimit == 2       \* deviceLimit of a key is 1..MaxLimit
MaxCredits == 2     \* credits of a reseller in a persisted store, 0..MaxCredits
MaxKeys == 2        \* keys the Key Store holds at most
NumSegs == 2        \* distinct random strings the key generator draws from

Reqs == 1..NumReqs
DeviceIds == 1..NumDevices

(***************************************************************************)
(* Program constants.                                                      *)
(***************************************************************************)
Games == {"PUBG MOBILE", "LAST ISLAND OF SURVIVAL", "STANDOFF2"}

MsgNotFound == "Invalid license key"
MsgWrongGame == "License key is not valid for this game"
MsgRevoked == "License key has been revoked"
MsgExpired == "License key has expired"
MsgValid == "License valid"
MsgLimit == "Device limit reached for this license key"
MsgCanRegister == "License valid, device can be registered"
MsgDuplicateDevice == "DuplicateDevice"

VARIABLES
    keys,       \* Key Store: sequence of Key records, a key's id is its index
    devices,    \* Device Registry: set of [keyId, deviceId, nth], nth numbering
                \* the records of one (keyId, deviceId) pair from 0
    credits,    \* Credit Ledger: reseller id -> balance
    resellers,  \* reseller records [id, username], a reseller's id is its index
    tokens,     \* referral tokens: token -> [isUsed, usedBy]
    now,        \* the clock read by `new Date()`
    pc,         \* request -> where its handler is suspended
    req,        \* request -> the request's inputs
    loc,        \* request -> the handler's local variables
    res,        \* request -> the response sent
    pre,        \* request -> the stores as they were when it arrived
    first       \* what a client that follows one request by another sent and
                \* got the first time

vars == <<keys, devices, credits, resellers, tokens, now, pc, req, loc, res,
         pre, first>>

(***************************************************************************)
(* Records.                                                                *)
(***************************************************************************)
NoKey ==
    [id |-> 0, keyString |-> <<>>, game |-> "", resellerId |-> 0,
     deviceLimit |-> 0, expiryDate |-> 0, isRevoked |-> FALSE]

NoReq ==
    [op |-> "", user |-> 0, keyString |-> <<>>, keyId |-> 0, game |-> "",
     deviceId |-> 0, count |-> 0, deviceLimit |-> 0, expiryDate |-> 0,
     amount |-> 0, username |-> "", referralToken |-> ""]

NoLoc ==
    [key |-> NoKey, devices |-> {}, now |-> 0, credits |-> 0, count |-> 0,
     i |-> 0, generatedKeys |-> <<>>, reseller |-> 0, mirror |-> ""]

NoRes ==
    [status |-> 0, valid |-> FALSE, message |-> "", expiry |-> -1,
     deviceLimit |-> -1, currentDevices |-> -1, canRegister |-> FALSE,
     success |-> FALSE, remainingCredits |-> -1, keys |-> <<>>]

Snapshot == [keys |-> keys, devices |-> devices, credits |-> credits]

NoFirst ==
    [sent |-> FALSE, req |-> NoReq, res |-> NoRes, now |-> 0, devices |-> {}]

(***************************************************************************)
(* The storage object.                                                     *)
(***************************************************************************)
KeyIds == 1..Len(keys)

getKey(keyString) ==
    IF \E i \in KeyIds : keys[i].keyString = keyString
    THEN keys[CHOOSE i \in KeyIds :
                  /\ keys[i].keyString = keyString
                  /\ \A j \in KeyIds : keys[j].keyString = keyString => i <= j]
    ELSE NoKey

getKeysByResellerId(resellerId) ==
    {keys[i] : i \in {j \in KeyIds : keys[j].resellerId = resellerId}}

getDevicesByKeyId(keyId) == {d \in devices : d.keyId = keyId}

\* The records of the Device Registry ds for one (keyId, deviceId) pair.
devicesOfPair(ds, keyId, deviceId) ==
    {d \in ds : d.keyId = keyId /\ d.deviceId = deviceId}

\* Variant of addDeviceFails that accepts a pair already registered.
addDeviceNeverFails(device) == FALSE

addDeviceFails(device) ==
    devicesOfPair(devices, device.keyId, device.deviceId) # {}

addDevice(device) ==
    devices' = devices \cup
        {[keyId |-> device.keyId, deviceId |-> device.deviceId,
          nth |-> Cardinality(devicesOfPair(devices, device.keyId, device.deviceId))]}

removeDeviceFound(deviceId, keyId) ==
    devicesOfPair(devices, keyId, deviceId) # {}

removeDevice(deviceId, keyId) ==
    devices' = devices \ devicesOfPair(devices, keyId, deviceId)

revokeKeyFound(keyId) == keyId \in KeyIds

revokeKey(keyId) == keys' = [keys EXCEPT ![keyId].isRevoked = TRUE]

getResellerFound(resellerId) == resellerId \in DOMAIN credits

updateResellerCredits(resellerId, delta) ==
    credits' = [credits EXCEPT ![resellerId] = @ + delta]

(***************************************************************************)
(* Responses.                                                              *)
(***************************************************************************)
Invalid(message) ==
    [NoRes EXCEPT !.status = 200, !.valid = FALSE, !.message = message]

Expired(key) ==
    [NoRes EXCEPT !.status = 200, !.valid = FALSE, !.message = MsgExpired,
                  !.expiry = key.expiryDate]

WithDevices(valid, message, key, currentDevices) ==
    [NoRes EXCEPT !.status = 200, !.valid = valid, !.message = message,
                  !.expiry = key.expiryDate, !.deviceLimit = key.deviceLimit,
                  !.currentDevices = currentDevices]

Failure(status, message) ==
    [NoRes EXCEPT !.status = status, !.message = message]

Finish(r, response) ==
    /\ pc' = [pc EXCEPT ![r] = "done"]
    /\ res' = [res EXCEPT ![r] = response]

\* A request arrives: a new one, the same one sent again, or the verify
\* that follows a device removal.
Arrive(r, request) ==
    /\ \/ pc[r] = "idle"
       \/ pc[r] = "again" /\ request = req[r]
       \/ pc[r] = "then" /\ request.op = "verify"
    /\ req' = [req EXCEPT ![r] = request]
    /\ pre' = [pre EXCEPT ![r] = Snapshot]

(***************************************************************************)
(* POST /api/verify                                                        *)
(***************************************************************************)
\* Variants of KeyVerdict with a slip: revocation not tested, revocation
\* tested before the game, expiry tested before revocation, expiry only
\* after its instant.
KeyVerdictNoRevocation(key, game, t) ==
    IF key = NoKey THEN MsgNotFound
    ELSE IF key.game # game THEN MsgWrongGame
    ELSE IF key.expiryDate <= t THEN MsgExpired
    ELSE ""

KeyVerdictRevokedFirst(key, game, t) ==
    IF key = NoKey THEN MsgNotFound
    ELSE IF key.isRevoked THEN MsgRevoked
    ELSE IF key.game # game THEN MsgWrongGame
    ELSE IF key.expiryDate <= t THEN MsgExpired
    ELSE ""

KeyVerdictExpiredFirst(key, game, t) ==
    IF key = NoKey THEN MsgNotFound
    ELSE IF key.game # game THEN MsgWrongGame
    ELSE IF key.expiryDate <= t THEN MsgExpired
    ELSE IF key.isRevoked THEN MsgRevoked
    ELSE ""

KeyVerdictStrictExpiry(key, game, t) ==
    IF key = NoKey THEN MsgNotFound
    ELSE IF key.game # game THEN MsgWrongGame
    ELSE IF key.isRevoked THEN MsgRevoked
    ELSE IF key.expiryDate < t THEN MsgExpired
    ELSE ""

\* The checks on the key record, in the order of the handler: "" when
\* the key passes all of them.
KeyVerdict(key, game, t) ==
    IF key = NoKey THEN MsgNotFound
    ELSE IF key.game # game THEN MsgWrongGame
    ELSE IF key.isRevoked THEN MsgRevoked
    ELSE IF key.expiryDate <= t THEN MsgExpired
    ELSE ""

KeyResponse(key, game, t) ==
    IF KeyVerdict(key, game, t) = MsgExpired
    THEN Expired(key)
    ELSE Invalid(KeyVerdict(key, game, t))

\* Variant of deviceExists that compares the wrong field.
deviceExistsByKeyId(devs, deviceId) == \E d \in devs : d.keyId = deviceId

\* devices.some(d => d.deviceId === deviceId)
deviceExists(devs, deviceId) == \E d \in devs : d.deviceId = deviceId

\* Variant of limitReached that lets one device more in.
limitReachedStrict(devs, key) == Cardinality(devs) > key.deviceLimit

\* devices.length >= key.deviceLimit
limitReached(devs, key) == Cardinality(devs) >= key.deviceLimit

\* storage.getKey and the checks that follow it.
VerifyGetKey(r, keyString, game, deviceId) ==
    /\ Arrive(r, [NoReq EXCEPT !.op = "verify", !.keyString = keyString,
                               !.game = game, !.deviceId = deviceId])
    /\ LET key == getKey(keyString)
       IN  /\ loc' = [loc EXCEPT ![r] = [NoLoc EXCEPT !.key = key, !.now = now]]
           /\ IF KeyVerdict(key, game, now) # ""
              THEN Finish(r, KeyResponse(key, game, now))
              ELSE /\ pc' = [pc EXCEPT ![r] = "verify_devices"]
                   /\ res' = res
    /\ UNCHANGED <<resellers, tokens, keys, devices, credits, now, first>>

\* storage.getDevicesByKeyId and the checks that follow it.
VerifyGetDevices(r) ==
    /\ pc[r] = "verify_devices"
    /\ LET key == loc[r].key
           devs == getDevicesByKeyId(key.id)
       IN  /\ loc' = [loc EXCEPT ![r].devices = devs]
           /\ IF deviceExists(devs, req[r].deviceId)
              THEN Finish(r, WithDevices(TRUE, MsgValid, key, Cardinality(devs)))
              ELSE IF limitReached(devs, key)
              THEN Finish(r, WithDevices(FALSE, MsgLimit, key, Cardinality(devs)))
              ELSE /\ pc' = [pc EXCEPT ![r] = "verify_add"]
                   /\ res' = res
    /\ UNCHANGED <<resellers, tokens, keys, devices, credits, now, req, pre, first>>

\* Variant of VerifyAddDevice that puts the device in the place of the
\* devices the key binds.
VerifyAddDeviceReplaces(r) ==
    /\ pc[r] = "verify_add"
    /\ LET key == loc[r].key
           device == [keyId |-> key.id, deviceId |-> req[r].deviceId]
       IN  IF addDeviceFails(device)
           THEN /\ Finish(r, [NoRes EXCEPT !.status = 400, !.valid = FALSE,
                                           !.message = MsgDuplicateDevice])
                /\ devices' = devices
           ELSE /\ devices' = (devices \ getDevicesByKeyId(key.id))
                                  \cup {[keyId |-> key.id,
                                         deviceId |-> req[r].deviceId, nth |-> 0]}
                /\ Finish(r, WithDevices(TRUE, MsgValid, key,
                                         Cardinality(loc[r].devices) + 1))
    /\ UNCHANGED <<resellers, tokens, keys, credits, now, req, loc, pre, first>>

\* Variant of VerifyAddDevice that reports the device count it read.
VerifyAddDeviceStaleCount(r) ==
    /\ pc[r] = "verify_add"
    /\ LET key == loc[r].key
           device == [keyId |-> key.id, deviceId |-> req[r].deviceId]
       IN  IF addDeviceFails(device)
           THEN /\ Finish(r, [NoRes EXCEPT !.status = 400, !.valid = FALSE,
                                           !.message = MsgDuplicateDevice])
                /\ devices' = devices
           ELSE /\ addDevice(device)
                /\ Finish(r, WithDevices(TRUE, MsgValid, key,
                                         Cardinality(loc[r].devices)))
    /\ UNCHANGED <<resellers, tokens, keys, credits, now, req, loc, pre, first>>

\* storage.addDevice and the response; a rejected insert is caught by the
\* handler's catch block.
VerifyAddDevice(r) ==
    /\ pc[r] = "verify_add"
    /\ LET key == loc[r].key
           device == [keyId |-> key.id, deviceId |-> req[r].deviceId]
       IN  IF addDeviceFails(device)
           THEN /\ Finish(r, [NoRes EXCEPT !.status = 400, !.valid = FALSE,
                                           !.message = MsgDuplicateDevice])
                /\ devices' = devices
           ELSE /\ addDevice(device)
                /\ Finish(r, WithDevices(TRUE, MsgValid, key,
                                         Cardinality(loc[r].devices) + 1))
    /\ UNCHANGED <<resellers, tokens, keys, credits, now, req, loc, pre, first>>

(***************************************************************************)
(* GET /api/verify/:key/:game/:deviceId                                    *)
(***************************************************************************)
MsgInvalidGame == "Invalid game. Must be one of: PUBG MOBILE, LAST ISLAND OF SURVIVAL, STANDOFF2"

\* Variant of CheckVerdict that tests revocation before the game.
CheckVerdictRevokedFirst(key, game, t) ==
    IF key = NoKey THEN MsgNotFound
    ELSE IF key.isRevoked THEN MsgRevoked
    ELSE IF key.game # game THEN MsgWrongGame
    ELSE IF key.expiryDate <= t THEN MsgExpired
    ELSE ""

\* The checks of this handler on the key record, in its order: "" when the
\* key passes all of them.
CheckVerdict(key, game, t) ==
    IF key = NoKey THEN MsgNotFound
    ELSE IF key.game # game THEN MsgWrongGame
    ELSE IF key.isRevoked THEN MsgRevoked
    ELSE IF key.expiryDate <= t THEN MsgExpired
    ELSE ""

CheckResponse(key, game, t) ==
    IF CheckVerdict(key, game, t) = MsgExpired
    THEN Expired(key)
    ELSE Invalid(CheckVerdict(key, game, t))

\* The parameter validation, storage.getKey and the checks that follow it.
CheckGetKey(r, keyString, game, deviceId) ==
    /\ Arrive(r, [NoReq EXCEPT !.op = "check", !.keyString = keyString,
                               !.game = game, !.deviceId = deviceId])
    /\ IF game \notin Games
       THEN /\ Finish(r, [NoRes EXCEPT !.status = 400, !.valid = FALSE,
                                       !.message = MsgInvalidGame])
            /\ loc' = [loc EXCEPT ![r] = NoLoc]
       ELSE LET key == getKey(keyString)
            IN  /\ loc' = [loc EXCEPT ![r] = [NoLoc EXCEPT !.key = key, !.now = now]]
                /\ IF CheckVerdict(key, game, now) # ""
                   THEN Finish(r, CheckResponse(key, game, now))
                   ELSE /\ pc' = [pc EXCEPT ![r] = "check_devices"]
                        /\ res' = res
    /\ UNCHANGED <<resellers, tokens, keys, devices, credits, now, first>>

\* Variant of CheckGetDevices that registers the device when a slot is free.
CheckGetDevicesRegisters(r) ==
    /\ pc[r] = "check_devices"
    /\ LET key == loc[r].key
           devs == getDevicesByKeyId(key.id)
       IN  /\ loc' = [loc EXCEPT ![r].devices = devs]
           /\ IF \E d \in devs : d.deviceId = req[r].deviceId
              THEN /\ Finish(r, WithDevices(TRUE, MsgValid, key, Cardinality(devs)))
                   /\ devices' = devices
              ELSE IF Cardinality(devs) >= key.deviceLimit
              THEN /\ Finish(r, WithDevices(FALSE, MsgLimit, key, Cardinality(devs)))
                   /\ devices' = devices
              ELSE /\ Finish(r, [WithDevices(TRUE, MsgCanRegister, key, Cardinality(devs))
                                    EXCEPT !.canRegister = TRUE])
                   /\ addDevice([keyId |-> key.id, deviceId |-> req[r].deviceId])
    /\ UNCHANGED <<resellers, tokens, keys, credits, now, req, pre, first>>

\* storage.getDevicesByKeyId and the response; nothing is registered.
CheckGetDevices(r) ==
    /\ pc[r] = "check_devices"
    /\ LET key == loc[r].key
           devs == getDevicesByKeyId(key.id)
       IN  /\ loc' = [loc EXCEPT ![r].devices = devs]
           /\ IF \E d \in devs : d.deviceId = req[r].deviceId
              THEN Finish(r, WithDevices(TRUE, MsgValid, key, Cardinality(devs)))
              ELSE IF Cardinality(devs) >= key.deviceLimit
              THEN Finish(r, WithDevices(FALSE, MsgLimit, key, Cardinality(devs)))
              ELSE Finish(r, [WithDevices(TRUE, MsgCanRegister, key, Cardinality(devs))
                                 EXCEPT !.canRegister = TRUE])
    /\ UNCHANGED <<resellers, tokens, keys, devices, credits, now, req, pre, first>>

(***************************************************************************)
(* POST /api/reseller/keys/:id/devices/:deviceId/remove                    *)
(***************************************************************************)
MsgKeyNotYours == "Key not found or does not belong to you"
MsgDeviceNotFound == "Device not found"
MsgDeviceRemoved == "Device removed successfully"

\* Variant of ownKey that looks for the key among the keys of every reseller.
ownKeyOfAnyone(user, keyId) == \E i \in 1..Len(keys) : keys[i].id = keyId

\* keys.find(k => k.id === keyId) over the reseller's own keys.
ownKey(user, keyId) == \E k \in getKeysByResellerId(user) : k.id = keyId

\* Variant of RemoveFindKey that looks for the key among the keys of every
\* reseller.
RemoveFindKeyOfAnyone(r, user, keyId, deviceId) ==
    /\ Arrive(r, [NoReq EXCEPT !.op = "remove", !.user = user,
                               !.keyId = keyId, !.deviceId = deviceId])
    /\ loc' = [loc EXCEPT ![r] = NoLoc]
    /\ IF ~\E i \in 1..Len(keys) : keys[i].id = keyId
       THEN Finish(r, Failure(404, MsgKeyNotYours))
       ELSE /\ pc' = [pc EXCEPT ![r] = "remove_device"]
            /\ res' = res
    /\ UNCHANGED <<resellers, tokens, keys, devices, credits, now, first>>

\* storage.getKeysByResellerId and the ownership check.
RemoveFindKey(r, user, keyId, deviceId) ==
    /\ Arrive(r, [NoReq EXCEPT !.op = "remove", !.user = user,
                               !.keyId = keyId, !.deviceId = deviceId])
    /\ loc' = [loc EXCEPT ![r] = NoLoc]
    /\ IF ~ownKey(user, keyId)
       THEN Finish(r, Failure(404, MsgKeyNotYours))
       ELSE /\ pc' = [pc EXCEPT ![r] = "remove_device"]
            /\ res' = res
    /\ UNCHANGED <<resellers, tokens, keys, devices, credits, now, first>>

\* Variant of RemoveDevice that answers without removing the record.
RemoveDeviceKeepsRecord(r) ==
    /\ pc[r] = "remove_device"
    /\ IF ~removeDeviceFound(req[r].deviceId, req[r].keyId)
       THEN Finish(r, Failure(404, MsgDeviceNotFound))
       ELSE Finish(r, [NoRes EXCEPT !.status = 200, !.success = TRUE,
                                    !.message = MsgDeviceRemoved])
    /\ UNCHANGED <<resellers, tokens, keys, devices, credits, now, req, loc,
                   pre, first>>

\* Variant of RemoveDevice that does not test what storage.removeDevice returns.
RemoveDeviceIgnoresResult(r) ==
    /\ pc[r] = "remove_device"
    /\ removeDevice(req[r].deviceId, req[r].keyId)
    /\ Finish(r, [NoRes EXCEPT !.status = 200, !.success = TRUE,
                               !.message = MsgDeviceRemoved])
    /\ UNCHANGED <<resellers, tokens, keys, credits, now, req, loc, pre, first>>

\* storage.removeDevice and the response.
RemoveDevice(r) ==
    /\ pc[r] = "remove_device"
    /\ IF ~removeDeviceFound(req[r].deviceId, req[r].keyId)
       THEN /\ Finish(r, Failure(404, MsgDeviceNotFound))
            /\ devices' = devices
       ELSE /\ removeDevice(req[r].deviceId, req[r].keyId)
            /\ Finish(r, [NoRes EXCEPT !.status = 200, !.success = TRUE,
                                       !.message = MsgDeviceRemoved])
    /\ UNCHANGED <<resellers, tokens, keys, credits, now, req, loc, pre, first>>

(***************************************************************************)
(* POST /api/reseller/keys/:id/revoke and DELETE /api/admin/keys/:id       *)
(***************************************************************************)
MsgKeyNotFound == "Key not found"
MsgKeyRevoked == "Key revoked successfully"

\* storage.getKeysByResellerId and the ownership check.
RevokeFindKey(r, user, keyId) ==
    /\ Arrive(r, [NoReq EXCEPT !.op = "revoke", !.user = user, !.keyId = keyId])
    /\ loc' = [loc EXCEPT ![r] = NoLoc]
    /\ IF ~ownKey(user, keyId)
       THEN Finish(r, Failure(404, MsgKeyNotYours))
       ELSE /\ pc' = [pc EXCEPT ![r] = "revoke_key"]
            /\ res' = res
    /\ UNCHANGED <<resellers, tokens, keys, devices, credits, now, first>>

\* Variant of RevokeKey that also removes the devices bound to the key.
RevokeKeyDropsDevices(r) ==
    /\ pc[r] = "revoke_key"
    /\ revokeKey(req[r].keyId)
    /\ devices' = devices \ getDevicesByKeyId(req[r].keyId)
    /\ Finish(r, [NoRes EXCEPT !.status = 200, !.success = TRUE])
    /\ UNCHANGED <<resellers, tokens, credits, now, req, loc, pre, first>>

\* Variant of RevokeKey that also ends the key's validity at the time of the
\* revocation.
RevokeKeyExpires(r) ==
    /\ pc[r] = "revoke_key"
    /\ keys' = [keys EXCEPT ![req[r].keyId].isRevoked = TRUE,
                            ![req[r].keyId].expiryDate = now]
    /\ Finish(r, [NoRes EXCEPT !.status = 200, !.success = TRUE])
    /\ UNCHANGED <<resellers, tokens, devices, credits, now, req, loc, pre, first>>

\* storage.revokeKey and the response.
RevokeKey(r) ==
    /\ pc[r] = "revoke_key"
    /\ revokeKey(req[r].keyId)
    /\ Finish(r, [NoRes EXCEPT !.status = 200, !.success = TRUE])
    /\ UNCHANGED <<resellers, tokens, devices, credits, now, req, loc, pre, first>>

\* Variant of AdminRevokeKey that also removes the devices bound to the key.
AdminRevokeKeyDropsDevices(r, keyId) ==
    /\ Arrive(r, [NoReq EXCEPT !.op = "admin_revoke", !.keyId = keyId])
    /\ loc' = [loc EXCEPT ![r] = NoLoc]
    /\ IF ~revokeKeyFound(keyId)
       THEN /\ Finish(r, Failure(404, MsgKeyNotFound))
            /\ keys' = keys
            /\ devices' = devices
       ELSE /\ revokeKey(keyId)
            /\ devices' = devices \ getDevicesByKeyId(keyId)
            /\ Finish(r, [NoRes EXCEPT !.status = 200, !.success = TRUE,
                                       !.message = MsgKeyRevoked])
    /\ UNCHANGED <<resellers, tokens, credits, now, first>>

\* Variant of AdminRevokeKey that flips the flag of the key.
AdminRevokeKeyToggles(r, keyId) ==
    /\ Arrive(r, [NoReq EXCEPT !.op = "admin_revoke", !.keyId = keyId])
    /\ loc' = [loc EXCEPT ![r] = NoLoc]
    /\ IF ~revokeKeyFound(keyId)
       THEN /\ Finish(r, Failure(404, MsgKeyNotFound))
            /\ keys' = keys
       ELSE /\ keys' = [keys EXCEPT ![keyId].isRevoked = ~@]
            /\ Finish(r, [NoRes EXCEPT !.status = 200, !.success = TRUE,
                                       !.message = MsgKeyRevoked])
    /\ UNCHANGED <<resellers, tokens, devices, credits, now, first>>

\* The admin route: storage.revokeKey on any key id.
AdminRevokeKey(r, keyId) ==
    /\ Arrive(r, [NoReq EXCEPT !.op = "admin_revoke", !.keyId = keyId])
    /\ loc' = [loc EXCEPT ![r] = NoLoc]
    /\ IF ~revokeKeyFound(keyId)
       THEN /\ Finish(r, Failure(404, MsgKeyNotFound))
            /\ keys' = keys
       ELSE /\ revokeKey(keyId)
            /\ Finish(r, [NoRes EXCEPT !.status = 200, !.success = TRUE,
                                       !.message = MsgKeyRevoked])
    /\ UNCHANGED <<resellers, tokens, devices, credits, now, first>>

(***************************************************************************)
(* The clock, and a client that sends its next request.                    *)
(***************************************************************************)
Tick ==
    /\ now < MaxTime
    /\ now' = now + 1
    /\ UNCHANGED <<resellers, tokens, keys, devices, credits, pc, req, loc, res, pre, first>>

\* The client takes the response and is free to send another request.
Return(r) ==
    /\ pc[r] = "done"
    /\ pc' = [pc EXCEPT ![r] = "idle"]
    /\ req' = [req EXCEPT ![r] = NoReq]
    /\ loc' = [loc EXCEPT ![r] = NoLoc]
    /\ res' = [res EXCEPT ![r] = NoRes]
    /\ first' = NoFirst
    /\ pre' = [pre EXCEPT ![r] = Snapshot]
    /\ UNCHANGED <<resellers, tokens, keys, devices, credits, now>>

\* The client keeps the response and sends the same verify request again.
Again(r) ==
    /\ pc[r] = "done"
    /\ req[r].op = "verify"
    /\ ~first.sent
    /\ first' = [sent |-> TRUE, req |-> req[r], res |-> res[r],
                 now |-> loc[r].now, devices |-> pre[r].devices]
    /\ pc' = [pc EXCEPT ![r] = "again"]
    /\ UNCHANGED <<resellers, tokens, keys, devices, credits, now, req, loc, res, pre>>

\* The client keeps the response of a device removal that succeeded and
\* sends a verify request next.
Then(r) ==
    /\ pc[r] = "done"
    /\ req[r].op = "remove"
    /\ res[r].success
    /\ ~first.sent
    /\ first' = [sent |-> TRUE, req |-> req[r], res |-> res[r],
                 now |-> now, devices |-> pre[r].devices]
    /\ pc' = [pc EXCEPT ![r] = "then"]
    /\ UNCHANGED <<resellers, tokens, keys, devices, credits, now, req, loc, res, pre>>

(***************************************************************************)
(* Verification: the stores a run starts from, and the requests.           *)
(***************************************************************************)
Resellers == {1, 2}

\* The stores are files kept across restarts: a run starts from what an
\* earlier run left.  Here: a key of reseller 1 with devices 1..n bound to
\* it, n within its deviceLimit, and a key of reseller 2 for another game,
\* revoked or not.
InitKeys ==
    {<<[id |-> 1, keyString |-> <<"PBGM", 1>>, game |-> "PUBG MOBILE",
        resellerId |-> 1, deviceLimit |-> l, expiryDate |-> e,
        isRevoked |-> FALSE],
       [id |-> 2, keyString |-> <<"STDF", 1>>, game |-> "STANDOFF2",
        resellerId |-> 2, deviceLimit |-> 1, expiryDate |-> MaxTime,
        isRevoked |-> v]>> : l \in 1..MaxLimit, e \in 1..MaxTime, v \in BOOLEAN}

InitDevices(ks) ==
    {{[keyId |-> 1, deviceId |-> d, nth |-> 0] : d \in 1..n} :
        n \in {m \in 0..ks[1].deviceLimit : m <= NumDevices}}

\* The resellers of the ledger, each registered with a referral token.
InitRegistered ==
    /\ resellers = <<[id |-> 1, username |-> "alice"],
                     [id |-> 2, username |-> "bob"]>>
    /\ tokens = [t \in {"T1", "T2"} |->
                    [isUsed |-> TRUE,
                     usedBy |-> IF t = "T1" THEN "alice" ELSE "bob"]]

InitClients ==
    /\ pc = [r \in Reqs |-> "idle"]
    /\ req = [r \in Reqs |-> NoReq]
    /\ loc = [r \in Reqs |-> NoLoc]
    /\ res = [r \in Reqs |-> NoRes]
    /\ first = NoFirst
    /\ pre = [r \in Reqs |-> Snapshot]

InitVerify ==
    /\ keys \in InitKeys
    /\ devices \in InitDevices(keys)
    /\ credits = [s \in Resellers |-> 0]
    /\ now = 0
    /\ InitRegistered
    /\ InitClients

\* The same with the first key alone and no device bound yet.
InitVerifySeq ==
    /\ keys \in {<<ks[1]>> : ks \in InitKeys}
    /\ devices = {}
    /\ credits = [s \in Resellers |-> 0]
    /\ now = 0
    /\ InitRegistered
    /\ InitClients

\* Key strings clients present: those of the two keys.
PresentedKeys == {<<"PBGM", 1>>, <<"STDF", 1>>}

\* Key ids named in reseller and admin requests.
NamedKeyIds == 1..2

\* The key ids a revocation names: those of the stored keys and one of no key.
RevokedKeyIds == NamedKeyIds \cup {MaxKeys + 1}

VerifyStep(r) ==
    \/ \E k \in PresentedKeys, g \in Games, d \in DeviceIds : VerifyGetKey(r, k, g, d)
    \/ VerifyGetDevices(r)
    \/ VerifyAddDevice(r)
    \/ \E k \in PresentedKeys, g \in Games \cup {"FREE FIRE"}, d \in DeviceIds :
          CheckGetKey(r, k, g, d)
    \/ CheckGetDevices(r)
    \/ \E u \in Resellers, i \in NamedKeyIds, d \in DeviceIds : RemoveFindKey(r, u, i, d)
    \/ RemoveDevice(r)
    \/ \E u \in Resellers, i \in RevokedKeyIds : RevokeFindKey(r, u, i)
    \/ RevokeKey(r)
    \/ \E i \in RevokedKeyIds : AdminRevokeKey(r, i)

\* Requests in flight together, each client sending one request.
NextVerify == Tick \/ \E r \in Reqs : VerifyStep(r)

SpecVerify == InitVerify /\ [][NextVerify]_vars

\* One client sending one request after the other.
NextVerifySeq == Tick \/ VerifyStep(1) \/ Return(1) \/ Again(1) \/ Then(1)

SpecVerifySeq == InitVerifySeq /\ [][NextVerifySeq]_vars

(***************************************************************************)
(* POST /api/reseller/keys/generate                                        *)
(***************************************************************************)
MsgInvalidGameSelection == "Invalid game selection"
MsgKeyExists == "This key already exists"
MsgResellerNotFound == "Reseller not found"
MsgInsufficient == "Insufficient credits"

\* The alphabet nanoid draws from: 64 URL-friendly symbols.
urlAlphabet ==
    <<"u", "s", "e", "a", "n", "d", "o", "m", "-", "2", "6", "T", "1", "9",
      "8", "3", "4", "0", "P", "X", "7", "5", "p", "x", "J", "A", "C", "K",
      "V", "E", "R", "Y", "M", "I", "N", "D", "B", "U", "S", "H", "W", "O",
      "L", "F", "_", "G", "Q", "Z", "b", "f", "g", "h", "j", "k", "l", "q",
      "v", "w", "y", "z", "r", "i", "c", "t">>

LowerCase ==
    <<"a", "b", "c", "d", "e", "f", "g", "h", "i", "j", "k", "l", "m", "n",
      "o", "p", "q", "r", "s", "t", "u", "v", "w", "x", "y", "z">>

UpperCase ==
    <<"A", "B", "C", "D", "E", "F", "G", "H", "I", "J", "K", "L", "M", "N",
      "O", "P", "Q", "R", "S", "T", "U", "V", "W", "X", "Y", "Z">>

Digits == <<"0", "1", "2", "3", "4", "5", "6", "7", "8", "9">>

\* String.prototype.toUpperCase, on one character and on a string.
toUpperCaseChar(c) ==
    IF \E i \in 1..Len(LowerCase) : LowerCase[i] = c
    THEN UpperCase[CHOOSE i \in 1..Len(LowerCase) : LowerCase[i] = c]
    ELSE c

toUpperCase(str) == [i \in 1..Len(str) |-> toUpperCaseChar(str[i])]

\* nanoid(size): size symbols of the alphabet.  Of the strings it may return,
\* the n-th here is the n-th run of size symbols of the alphabet.
nanoid(size, n) ==
    [i \in 1..size |-> urlAlphabet[(((n - 1) * size + i - 1) % Len(urlAlphabet)) + 1]]

\* The length of a segment of a key string.
SegmentLength == 5

keyPrefix(game) ==
    IF game = "PUBG MOBILE" THEN <<"P", "B", "G", "M">>
    ELSE IF game = "LAST ISLAND OF SURVIVAL" THEN <<"L", "I", "O", "S">>
    ELSE IF game = "STANDOFF2" THEN <<"S", "T", "D", "F">>
    ELSE <<>>

\* generateKeyString: the game's prefix and three segments joined by "-", a
\* string being the sequence of its characters; n is the draw, the string
\* the calls of nanoid return.
generateKeyString(game, n) ==
    LET segment == toUpperCase(nanoid(SegmentLength, n))
    IN  keyPrefix(game) \o <<"-">> \o segment \o <<"-">> \o segment
                       \o <<"-">> \o segment

\* const count = req.body.count || 1
effectiveCount(count) == IF count = 0 THEN 1 ELSE count

insufficientCredits(balance, count) == balance < count

\* storage.getReseller, the credit check and the entry into the loop.
GenCheckCredits(r, request) ==
    LET count == effectiveCount(request.count)
    IN  IF ~getResellerFound(request.user)
        THEN /\ Finish(r, Failure(404, MsgResellerNotFound))
             /\ loc' = [loc EXCEPT ![r] = NoLoc]
        ELSE IF insufficientCredits(credits[request.user], count)
        THEN /\ Finish(r, Failure(400, MsgInsufficient))
             /\ loc' = [loc EXCEPT ![r] = NoLoc]
        ELSE /\ loc' = [loc EXCEPT ![r] = [NoLoc EXCEPT
                            !.credits = credits[request.user], !.count = count]]
             /\ pc' = [pc EXCEPT ![r] = IF 0 < count THEN "gen_create" ELSE "gen_debit"]
             /\ res' = res

\* Variant of GenValidate that looks up the custom key string before it
\* validates the game.
GenValidateKeyFirst(r, user, game, keyString, count, deviceLimit, expiryDate) ==
    LET request == [NoReq EXCEPT !.op = "generate", !.user = user, !.game = game,
                       !.keyString = keyString, !.count = count,
                       !.deviceLimit = deviceLimit, !.expiryDate = expiryDate]
    IN  /\ Arrive(r, request)
        /\ IF keyString # <<>> /\ getKey(keyString) # NoKey
           THEN /\ Finish(r, Failure(400, MsgKeyExists))
                /\ loc' = [loc EXCEPT ![r] = NoLoc]
           ELSE IF game \notin Games
           THEN /\ Finish(r, Failure(400, MsgInvalidGameSelection))
                /\ loc' = [loc EXCEPT ![r] = NoLoc]
           ELSE IF keyString # <<>>
           THEN /\ loc' = [loc EXCEPT ![r] = NoLoc]
                /\ pc' = [pc EXCEPT ![r] = "gen_reseller"]
                /\ res' = res
           ELSE GenCheckCredits(r, request)
        /\ UNCHANGED <<resellers, tokens, keys, devices, credits, now, first>>

\* Validation of the game, storage.getKey for a custom key string; without
\* a custom key string the handler runs on to storage.getReseller.
GenValidate(r, user, game, keyString, count, deviceLimit, expiryDate) ==
    LET request == [NoReq EXCEPT !.op = "generate", !.user = user, !.game = game,
                       !.keyString = keyString, !.count = count,
                       !.deviceLimit = deviceLimit, !.expiryDate = expiryDate]
    IN  /\ Arrive(r, request)
        /\ IF game \notin Games
           THEN /\ Finish(r, Failure(400, MsgInvalidGameSelection))
                /\ loc' = [loc EXCEPT ![r] = NoLoc]
           ELSE IF keyString # <<>>
           THEN /\ loc' = [loc EXCEPT ![r] = NoLoc]
                /\ IF getKey(keyString) # NoKey
                   THEN Finish(r, Failure(400, MsgKeyExists))
                   ELSE /\ pc' = [pc EXCEPT ![r] = "gen_reseller"]
                        /\ res' = res
           ELSE GenCheckCredits(r, request)
        /\ UNCHANGED <<resellers, tokens, keys, devices, credits, now, first>>

GenGetReseller(r) ==
    /\ pc[r] = "gen_reseller"
    /\ GenCheckCredits(r, req[r])
    /\ UNCHANGED <<resellers, tokens, keys, devices, credits, now, req, pre, first>>

\* One turn of the loop: storage.createKey of the i-th key, n being the
\* generator's draw.
GenCreateKey(r, n) ==
    /\ pc[r] = "gen_create"
    /\ Len(keys) < MaxKeys
    /\ LET i == loc[r].i
           keyString == IF req[r].keyString # <<>> THEN req[r].keyString
                        ELSE generateKeyString(req[r].game, n)
           key == [id |-> Len(keys) + 1,
                   keyString |-> IF i = 0 THEN keyString
                                 ELSE generateKeyString(req[r].game, n),
                   game |-> req[r].game,
                   resellerId |-> req[r].user,
                   deviceLimit |-> req[r].deviceLimit,
                   expiryDate |-> req[r].expiryDate,
                   isRevoked |-> FALSE]
       IN  /\ keys' = Append(keys, key)
           /\ loc' = [loc EXCEPT ![r].i = i + 1,
                                 ![r].generatedKeys = Append(@, key.id)]
           /\ pc' = [pc EXCEPT ![r] = IF i + 1 < loc[r].count THEN "gen_create"
                                      ELSE "gen_debit"]
    /\ UNCHANGED <<resellers, tokens, devices, credits, now, req, res, pre, first>>

\* updateResellerFile: it catches every error of the file system and
\* returns false; written tells whether the file system let it write.
updateResellerFile(written) == IF written THEN "written" ELSE "failed"

\* Variant of GenDebit that answers with the error when the reseller's file
\* could not be written.
GenDebitMirrorFatal(r) ==
    /\ pc[r] = "gen_debit"
    /\ credits[req[r].user] - loc[r].count <= MaxCredits
    /\ updateResellerCredits(req[r].user, -loc[r].count)
    /\ \E written \in BOOLEAN :
          /\ loc' = [loc EXCEPT ![r].mirror = updateResellerFile(written)]
          /\ IF written
             THEN Finish(r, [NoRes EXCEPT !.status = 201, !.success = TRUE,
                                !.keys = loc[r].generatedKeys,
                                !.remainingCredits = loc[r].credits - loc[r].count])
             ELSE Finish(r, Failure(400, "failed"))
    /\ UNCHANGED <<resellers, tokens, keys, devices, now, req, pre, first>>

\* Variant of GenDebit that debits the count field as sent, not the count
\* the loop ran to.
GenDebitRawCount(r) ==
    /\ pc[r] = "gen_debit"
    /\ credits[req[r].user] - req[r].count <= MaxCredits
    /\ updateResellerCredits(req[r].user, -req[r].count)
    /\ \E written \in BOOLEAN :
          loc' = [loc EXCEPT ![r].mirror = updateResellerFile(written)]
    /\ Finish(r, [NoRes EXCEPT !.status = 201, !.success = TRUE,
                               !.keys = loc[r].generatedKeys,
                               !.remainingCredits = loc[r].credits - loc[r].count])
    /\ UNCHANGED <<resellers, tokens, keys, devices, now, req, pre, first>>

\* storage.updateResellerCredits, the mirroring of the keys to the
\* reseller's file, whose outcome the handler ignores, and the response.
GenDebit(r) ==
    /\ pc[r] = "gen_debit"
    /\ credits[req[r].user] - loc[r].count <= MaxCredits
    /\ updateResellerCredits(req[r].user, -loc[r].count)
    /\ \E written \in BOOLEAN :
          loc' = [loc EXCEPT ![r].mirror = updateResellerFile(written)]
    /\ Finish(r, [NoRes EXCEPT !.status = 201, !.success = TRUE,
                               !.keys = loc[r].generatedKeys,
                               !.remainingCredits = loc[r].credits - loc[r].count])
    /\ UNCHANGED <<resellers, tokens, keys, devices, now, req, pre, first>>

(***************************************************************************)
(* POST /api/admin/resellers/credits                                       *)
(***************************************************************************)
CreditsGetReseller(r, resellerId, amount) ==
    /\ Arrive(r, [NoReq EXCEPT !.op = "credits", !.user = resellerId,
                               !.amount = amount])
    /\ loc' = [loc EXCEPT ![r] = NoLoc]
    /\ IF ~getResellerFound(resellerId)
       THEN Finish(r, Failure(404, MsgResellerNotFound))
       ELSE /\ pc' = [pc EXCEPT ![r] = "credits_update"]
            /\ res' = res
    /\ UNCHANGED <<resellers, tokens, keys, devices, credits, now, first>>

\* Variant of CreditsUpdate: the amount is taken from the balance.
CreditsUpdateDebits(r) ==
    /\ pc[r] = "credits_update"
    /\ updateResellerCredits(req[r].user, -req[r].amount)
    /\ Finish(r, [NoRes EXCEPT !.status = 200, !.success = TRUE])
    /\ UNCHANGED <<resellers, tokens, keys, devices, now, req, loc, pre, first>>

CreditsUpdate(r) ==
    /\ pc[r] = "credits_update"
    /\ credits[req[r].user] + req[r].amount <= MaxCredits
    /\ updateResellerCredits(req[r].user, req[r].amount)
    /\ Finish(r, [NoRes EXCEPT !.status = 200, !.success = TRUE])
    /\ UNCHANGED <<resellers, tokens, keys, devices, now, req, loc, pre, first>>

(***************************************************************************)
(* Issuance: the stores a run starts from, and the requests.               *)
(***************************************************************************)
InitIssue ==
    /\ keys = <<>>
    /\ devices = {}
    /\ credits \in [Resellers -> 0..MaxCredits]
    /\ now = 0
    /\ InitRegistered
    /\ InitClients

\* Sessions that issue keys: reseller 1, and one whose reseller record is gone.
Users == {1, 3}

RequestedGames == {"PUBG MOBILE", "FREE FIRE"}

CustomKeys == {<<>>, <<"CUSTOM", 1>>}

\* The count field of the request body: negative, absent or zero, positive.
Counts == -1..2

\* The amounts an admin grants.
Amounts == 1..MaxCredits

IssueStep(r) ==
    \/ \E u \in Users, g \in RequestedGames, k \in CustomKeys, c \in Counts :
          GenValidate(r, u, g, k, c, 1, MaxTime)
    \/ GenGetReseller(r)
    \/ \E n \in 1..NumSegs : GenCreateKey(r, n)
    \/ GenDebit(r)
    \/ \E s \in Resellers \cup {3}, a \in Amounts : CreditsGetReseller(r, s, a)
    \/ CreditsUpdate(r)

NextIssue == \E r \in Reqs : IssueStep(r)

SpecIssue == InitIssue /\ [][NextIssue]_vars

NextIssueSeq == IssueStep(1) \/ Return(1)

SpecIssueSeq == InitIssue /\ [][NextIssueSeq]_vars

(***************************************************************************)
(* Properties.                                                             *)
(***************************************************************************)
\* The key a lookup of keyString yields in the key store ks (NoKey if none).
KeyIn(ks, keyString) ==
    LET found == {i \in 1..Len(ks) : ks[i].keyString = keyString}
    IN  IF found = {} THEN NoKey
        ELSE ks[CHOOSE i \in found : \A j \in found : i <= j]

DevicesIn(ds, keyId) == {d \in ds : d.keyId = keyId}

Done(r, op) == pc[r] = "done" /\ req[r].op = op

\* C1: in every reachable state the number of Device records bound to a key
\* is at most that key's deviceLimit.
C1_DevicesWithinLimit ==
    \A i \in KeyIds : Cardinality(getDevicesByKeyId(i)) <= keys[i].deviceLimit

\* C2: when every request is a mutating verify of the same valid key, from
\* pairwise distinct devices none of which was bound, and there are more
\* of them than the key's deviceLimit L, then once all have completed exactly
\* L devices are registered, exactly L calls returned valid and the others
\* returned the device-limit verdict.
C2_ConcurrentVerifiesFillExactlyLimit ==
    LET key == keys[1]
        valid == {r \in Reqs : res[r].valid}
        refused == {r \in Reqs : res[r].message = MsgLimit}
    IN  (/\ \A r \in Reqs :
              /\ Done(r, "verify")
              /\ req[r].keyString = key.keyString
              /\ req[r].game = key.game
              /\ loc[r].now < key.expiryDate
              /\ DevicesIn(pre[r].devices, 1) \subseteq
                    {[keyId |-> 1, deviceId |-> req[q].deviceId, nth |-> 0] : q \in Reqs \ {r}}
         /\ \A r, q \in Reqs : r # q => req[r].deviceId # req[q].deviceId
         /\ key.deviceLimit < NumReqs)
        => /\ Cardinality(getDevicesByKeyId(1)) = key.deviceLimit
           /\ Cardinality(valid) = key.deviceLimit
           /\ refused = Reqs \ valid

\* C3: no reseller's credit balance is ever below zero, whatever the
\* interleaving of key-generation requests.
C3_BalanceNeverNegative == \A s \in Resellers : credits[s] >= 0

\* C4: when every request is a key generation of count 1 for the same
\* reseller, whose balance B is less than their number, then once all have
\* completed exactly B succeeded, the others failed with 'Insufficient
\* credits', exactly B keys were created and the balance is B less.
C4_ConcurrentIssuesSpendExactlyBalance ==
    \A s \in Resellers :
        \* only issuance ran, so the balance the first request met is the largest
        LET B == CHOOSE b \in {pre[r].credits[s] : r \in Reqs} :
                     \A r \in Reqs : pre[r].credits[s] <= b
            ok == {r \in Reqs : res[r].status = 201}
            failed == {r \in Reqs : res[r].message = MsgInsufficient}
        IN  (/\ \A r \in Reqs :
                  /\ Done(r, "generate")
                  /\ req[r].user = s
                  /\ req[r].game \in Games
                  /\ req[r].keyString = <<>>
                  /\ req[r].count = 1
             /\ B < NumReqs)
            => /\ Cardinality(ok) = B
               /\ failed = Reqs \ ok
               /\ Len(keys) = B
               /\ credits[s] = 0

\* The key the request of r met, its devices then, and the record r presents.
MetKey(r) == KeyIn(pre[r].keys, req[r].keyString)

MetDevices(r) == DevicesIn(pre[r].devices, MetKey(r).id)

Presented(r) == [keyId |-> MetKey(r).id, deviceId |-> req[r].deviceId, nth |-> 0]

Says(r, valid, message) == res[r].valid = valid /\ res[r].message = message

\* C5: the verdict of a mutating verify call is that of the first condition
\* that holds, in the order: key string absent, other game, revoked,
\* now >= expiry, device already bound (valid), device count >= deviceLimit,
\* otherwise the device is registered and the verdict is valid.
C5_VerdictByPrecedence ==
    \A r \in Reqs : Done(r, "verify") =>
        IF MetKey(r) = NoKey
        THEN Says(r, FALSE, MsgNotFound) /\ devices = pre[r].devices
        ELSE IF MetKey(r).game # req[r].game
        THEN Says(r, FALSE, MsgWrongGame) /\ devices = pre[r].devices
        ELSE IF MetKey(r).isRevoked
        THEN Says(r, FALSE, MsgRevoked) /\ devices = pre[r].devices
        ELSE IF loc[r].now >= MetKey(r).expiryDate
        THEN Says(r, FALSE, MsgExpired) /\ devices = pre[r].devices
        ELSE IF Presented(r) \in MetDevices(r)
        THEN Says(r, TRUE, MsgValid) /\ devices = pre[r].devices
        ELSE IF Cardinality(MetDevices(r)) >= MetKey(r).deviceLimit
        THEN Says(r, FALSE, MsgLimit) /\ devices = pre[r].devices
        ELSE Says(r, TRUE, MsgValid)
             /\ devices = pre[r].devices \cup {Presented(r)}

\* A call refused at the sixth condition, on a key that passed the first five.
C5_Witness ==
    \E r \in Reqs :
        /\ Done(r, "verify")
        /\ Says(r, FALSE, MsgLimit)
        /\ MetKey(r) # NoKey
        /\ Presented(r) \notin MetDevices(r)

\* C6 as stated: every verify call (either entry point) that presents the
\* key string of a revoked key returns valid=false with the 'revoked'
\* reason, whatever the game, the device and the expiry state.
C6_RevokedWhateverGame ==
    \A r \in Reqs :
        ((Done(r, "verify") \/ Done(r, "check")) /\ MetKey(r).isRevoked)
            => Says(r, FALSE, MsgRevoked)

\* C6 amended: every verify call (either entry point) whose lookup yields a
\* revoked key returns valid=false; the reason is 'revoked' when the
\* requested game is the key's game, whatever the device and the expiry
\* state, and 'wrong game' when it is another supported game.
C6_RevokedWhenGameMatches ==
    \A r \in Reqs :
        ((Done(r, "verify") \/ Done(r, "check")) /\ MetKey(r).isRevoked)
            => IF req[r].game = MetKey(r).game
               THEN Says(r, FALSE, MsgRevoked)
               ELSE IF req[r].game \in Games
               THEN Says(r, FALSE, MsgWrongGame)
               ELSE ~res[r].valid

\* A call on a revoked key that is also expired, from a device bound to it.
C6_Witness ==
    \E r \in Reqs :
        /\ Done(r, "verify")
        /\ MetKey(r).isRevoked
        /\ req[r].game = MetKey(r).game
        /\ loc[r].now >= MetKey(r).expiryDate
        /\ Presented(r) \in MetDevices(r)
        /\ Says(r, FALSE, MsgRevoked)

C7_ExpiredVerdict ==
    \A r \in Reqs :
        (/\ Done(r, "verify") \/ Done(r, "check")
         /\ MetKey(r) # NoKey
         /\ MetKey(r).game = req[r].game
         /\ ~MetKey(r).isRevoked)
        => IF loc[r].now >= MetKey(r).expiryDate
           THEN /\ Says(r, FALSE, MsgExpired)
                /\ res[r].expiry = MetKey(r).expiryDate
           ELSE res[r].message # MsgExpired

C7_ExpiredRegistersNothing ==
    \A r \in Reqs :
        (pc[r] # "done" /\ pc'[r] = "done" /\ res'[r].message = MsgExpired)
            => devices' = devices

\* C7: for a key that exists, matches the requested game and is not revoked,
\* verify returns 'expired' with the expiry timestamp whenever now >= expiry
\* (the instant now = expiry included) and never while now < expiry; the
\* step that returns 'expired' registers no device.
C7_ExpiredFromExpiryOn == []C7_ExpiredVerdict /\ [][C7_ExpiredRegistersNothing]_vars

\* An 'expired' verdict at the very instant of expiry, for a bound device.
C7_Witness ==
    \E r \in Reqs :
        /\ Done(r, "verify")
        /\ Says(r, FALSE, MsgExpired)
        /\ loc[r].now = MetKey(r).expiryDate
        /\ Presented(r) \in MetDevices(r)
        /\ Presented(r) \in devices

\* C8: a mutating verify sent twice in a row with the same key, game and a
\* device already bound to the key, the key being valid, returns valid both
\* times with the same currentDevices, and the device set after the second
\* call is the one before the first.
C8_RepeatedVerifyOfBoundDevice ==
    \A r \in Reqs :
        (/\ Done(r, "verify")
         /\ first.sent
         /\ first.req = req[r]
         /\ MetKey(r) # NoKey
         /\ MetKey(r).game = req[r].game
         /\ ~MetKey(r).isRevoked
         /\ loc[r].now < MetKey(r).expiryDate
         /\ Presented(r) \in first.devices)
        => /\ first.res.valid
           /\ res[r].valid
           /\ res[r].currentDevices = first.res.currentDevices
           /\ devices = first.devices

\* The second of two calls from a bound device has returned.
C8_Witness ==
    \E r \in Reqs :
        /\ Done(r, "verify")
        /\ first.sent
        /\ first.req = req[r]
        /\ Presented(r) \in first.devices
        /\ first.res.valid
        /\ res[r].valid
        /\ res[r].currentDevices = MetKey(r).deviceLimit

\* C9: one call after the other on a valid key of deviceLimit N, each from a
\* device not yet bound: while fewer than N devices are bound the call
\* registers the device and reports the new count (the Nth reports N); with
\* N bound it returns 'device limit reached', reports currentDevices = N and
\* deviceLimit = N, and leaves the device set unchanged.
C9_LimitBoundary ==
    \A r \in Reqs :
        (/\ Done(r, "verify")
         /\ MetKey(r) # NoKey
         /\ MetKey(r).game = req[r].game
         /\ ~MetKey(r).isRevoked
         /\ loc[r].now < MetKey(r).expiryDate
         /\ Presented(r) \notin MetDevices(r))
        => IF Cardinality(MetDevices(r)) < MetKey(r).deviceLimit
           THEN /\ Says(r, TRUE, MsgValid)
                /\ res[r].currentDevices = Cardinality(MetDevices(r)) + 1
                /\ devices = pre[r].devices \cup {Presented(r)}
           ELSE /\ Says(r, FALSE, MsgLimit)
                /\ res[r].currentDevices = MetKey(r).deviceLimit
                /\ res[r].deviceLimit = MetKey(r).deviceLimit
                /\ Cardinality(MetDevices(r)) = MetKey(r).deviceLimit
                /\ devices = pre[r].devices

\* The (N+1)th device is refused on a key whose N devices are bound, N > 1.
C9_Witness ==
    \E r \in Reqs :
        /\ Done(r, "verify")
        /\ Says(r, FALSE, MsgLimit)
        /\ MetKey(r).deviceLimit > 1
        /\ res[r].currentDevices = MetKey(r).deviceLimit
        /\ devices = pre[r].devices

\* C10: a key generation that succeeds lowers the reseller's balance by
\* exactly the count (the count field, 1 when it is absent); one that fails
\* for an invalid game, an existing custom key string, a missing reseller
\* or insufficient credits leaves every balance unchanged and creates no key.
C10_CreditConservation ==
    \A r \in Reqs : Done(r, "generate") =>
        IF res[r].status = 201
        THEN credits = [pre[r].credits EXCEPT
                           ![req[r].user] = @ - effectiveCount(req[r].count)]
        ELSE /\ res[r].message \in {MsgInvalidGameSelection, MsgKeyExists,
                                    MsgResellerNotFound, MsgInsufficient}
             /\ credits = pre[r].credits
             /\ keys = pre[r].keys

\* A batch of two keys was issued and paid for.
C10_Witness ==
    \E r \in Reqs :
        /\ Done(r, "generate")
        /\ res[r].status = 201
        /\ req[r].count = 2
        /\ Len(keys) = Len(pre[r].keys) + 2
        /\ credits[req[r].user] = pre[r].credits[req[r].user] - 2

\* C11: no two Key records have the same caller-chosen key string: of the
\* key-generation requests that supply the same custom key string, at most
\* one creates a key with it.
C11_CustomKeyStringUnique ==
    \A k \in CustomKeys \ {<<>>} :
        Cardinality({i \in KeyIds : keys[i].keyString = k}) <= 1

\* C12: the Device Registry holds at most one record per (keyId, deviceId)
\* pair; two mutating verify calls in flight together for the same valid key
\* and the same device, bound to it when neither arrived, a slot being
\* free, leave exactly one record of the pair and one device more on the key.
C12_OneRecordPerPair ==
    /\ \A d \in devices : devicesOfPair(devices, d.keyId, d.deviceId) = {d}
    /\ \A r, q \in Reqs :
          (/\ r # q
           /\ Done(r, "verify") /\ Done(q, "verify")
           /\ req[r] = req[q]
           /\ \A p \in {r, q} :
                 /\ MetKey(p) # NoKey
                 /\ MetKey(p).game = req[p].game
                 /\ ~MetKey(p).isRevoked
                 /\ loc[p].now < MetKey(p).expiryDate
                 /\ Presented(p) \notin MetDevices(p)
                 /\ Cardinality(MetDevices(p)) < MetKey(p).deviceLimit)
          => /\ devicesOfPair(devices, MetKey(r).id, req[r].deviceId) = {Presented(r)}
             /\ Cardinality(DevicesIn(devices, MetKey(r).id))
                   = Cardinality(MetDevices(r)) + 1

\* Both calls went on to register the device; the registry refused the second.
C12_Witness ==
    \E r, q \in Reqs :
        /\ r # q
        /\ Done(r, "verify") /\ Done(q, "verify")
        /\ req[r] = req[q]
        /\ Presented(r) \notin MetDevices(r)
        /\ Presented(q) \notin MetDevices(q)
        /\ res[r].valid
        /\ res[q].message = MsgDuplicateDevice
        /\ devicesOfPair(devices, MetKey(r).id, req[r].deviceId) = {Presented(r)}

(***************************************************************************)
(* POST /api/auth/reseller/register                                        *)
(***************************************************************************)
MsgUsernameExists == "Username already exists"
MsgBadToken == "Invalid or already used referral token"
MsgRegistered == "Registration successful"

NoToken == [isUsed |-> FALSE, usedBy |-> "", token |-> ""]

getResellerByUsernameFound(username) ==
    \E i \in 1..Len(resellers) : resellers[i].username = username

getToken(token) ==
    IF token \in DOMAIN tokens
    THEN [isUsed |-> tokens[token].isUsed, usedBy |-> tokens[token].usedBy,
          token |-> token]
    ELSE NoToken

\* A new reseller record, with no credits yet.
createReseller(username) ==
    LET id == Len(resellers) + 1
    IN  /\ resellers' = Append(resellers, [id |-> id, username |-> username])
        /\ credits' = [s \in DOMAIN credits \cup {id} |->
                          IF s = id THEN 0 ELSE credits[s]]

useToken(token, username) ==
    tokens' = [tokens EXCEPT ![token] = [isUsed |-> TRUE, usedBy |-> username]]

\* storage.getResellerByUsername and the check that follows it.
RegGetResellerByUsername(r, username, referralToken) ==
    /\ Arrive(r, [NoReq EXCEPT !.op = "register", !.username = username,
                               !.referralToken = referralToken])
    /\ loc' = [loc EXCEPT ![r] = NoLoc]
    /\ IF getResellerByUsernameFound(username)
       THEN Finish(r, Failure(400, MsgUsernameExists))
       ELSE /\ pc' = [pc EXCEPT ![r] = "reg_token"]
            /\ res' = res
    /\ UNCHANGED <<keys, devices, credits, resellers, tokens, now, first>>

\* !token || token.isUsed
tokenRefused(token) == token = NoToken \/ token.isUsed

\* storage.getToken and the check that follows it.
RegGetToken(r) ==
    /\ pc[r] = "reg_token"
    /\ IF tokenRefused(getToken(req[r].referralToken))
       THEN Finish(r, Failure(400, MsgBadToken))
       ELSE /\ pc' = [pc EXCEPT ![r] = "reg_create"]
            /\ res' = res
    /\ UNCHANGED <<keys, devices, credits, resellers, tokens, now, req, loc,
                   pre, first>>

\* storage.createReseller.
RegCreateReseller(r) ==
    /\ pc[r] = "reg_create"
    /\ createReseller(req[r].username)
    /\ loc' = [loc EXCEPT ![r].reseller = Len(resellers) + 1]
    /\ pc' = [pc EXCEPT ![r] = "reg_use_token"]
    /\ UNCHANGED <<keys, devices, tokens, now, req, res, pre, first>>

\* storage.useToken, the reseller's key file (its failure is caught and
\* changes nothing here) and the response.
RegUseToken(r) ==
    /\ pc[r] = "reg_use_token"
    /\ useToken(req[r].referralToken, req[r].username)
    /\ Finish(r, [NoRes EXCEPT !.status = 201, !.success = TRUE,
                               !.message = MsgRegistered])
    /\ UNCHANGED <<keys, devices, credits, resellers, now, req, loc, pre, first>>

(***************************************************************************)
(* Registration: the stores a run starts from, and the requests.           *)
(***************************************************************************)
\* Tokens the admin has generated, none of them used yet.
Tokens == {"T1", "T2"}

Usernames == {"carol", "dave"}

InitRegister ==
    /\ keys = <<>>
    /\ devices = {}
    /\ credits = <<>>
    /\ resellers = <<>>
    /\ tokens = [t \in Tokens |-> [isUsed |-> FALSE, usedBy |-> ""]]
    /\ now = 0
    /\ InitClients

RegisterStep(r) ==
    \/ \E u \in Usernames, t \in Tokens \cup {"T0"} : RegGetResellerByUsername(r, u, t)
    \/ RegGetToken(r)
    \/ RegCreateReseller(r)
    \/ RegUseToken(r)

\* Registrations in flight together.
NextRegister == \E r \in Reqs : RegisterStep(r)

SpecRegister == InitRegister /\ [][NextRegister]_vars

\* C13: a referral token authorizes at most one registration: of the
\* registration requests that present the same token with different
\* usernames, at most one succeeds, whether one follows the other or they
\* are in flight together.
C13_TokenAuthorizesOneRegistration ==
    \A r, q \in Reqs :
        (/\ r # q
         /\ Done(r, "register") /\ Done(q, "register")
         /\ req[r].referralToken = req[q].referralToken
         /\ req[r].username # req[q].username)
        => ~(res[r].status = 201 /\ res[q].status = 201)

C14_CheckChangesNothing ==
    \A r \in Reqs :
        (pc'[r] # pc[r] /\ req'[r].op = "check")
            => /\ keys' = keys
               /\ devices' = devices
               /\ credits' = credits

C14_CanRegisterVerdict ==
    \A r \in Reqs :
        (/\ Done(r, "check")
         /\ MetKey(r) # NoKey
         /\ MetKey(r).game = req[r].game
         /\ ~MetKey(r).isRevoked
         /\ loc[r].now < MetKey(r).expiryDate
         /\ Presented(r) \notin MetDevices(r)
         /\ Cardinality(MetDevices(r)) < MetKey(r).deviceLimit)
        => /\ Says(r, TRUE, MsgCanRegister)
           /\ res[r].canRegister
           /\ res[r].currentDevices = Cardinality(MetDevices(r))
           /\ devices = pre[r].devices

\* C14: no step of the read-only verify entry point changes the Key Store,
\* the Device Registry or a reseller's balance; for a valid key, a device
\* not bound to it and a free slot it returns valid=true, canRegister=true
\* and currentDevices equal to the device count, which it leaves as it was.
C14_ReadOnlyVerify == []C14_CanRegisterVerdict /\ [][C14_CheckChangesNothing]_vars

\* The read-only entry point said 'can register' on a key with a device bound.
C14_Witness ==
    \E r \in Reqs :
        /\ Done(r, "check")
        /\ res[r].canRegister
        /\ res[r].currentDevices = 1
        /\ Cardinality(DevicesIn(devices, MetKey(r).id)) = 1
        /\ Presented(r) \notin devices

\* One of the conditions 1-6 holds of the stores and the instant r met.
Conditions1to6(r) ==
    \/ MetKey(r) = NoKey
    \/ MetKey(r).game # req[r].game
    \/ MetKey(r).isRevoked
    \/ loc[r].now >= MetKey(r).expiryDate
    \/ Presented(r) \in MetDevices(r)
    \/ Cardinality(MetDevices(r)) >= MetKey(r).deviceLimit

\* C15: a mutating and a read-only verify call with the same key string,
\* game and device, that met the same stores at the same instant, return
\* the same valid flag and the same reason whenever one of the conditions
\* 1-6 (not found, wrong game, revoked, expired, already bound, limit
\* reached) holds.
C15_EntryPointsAgree ==
    \A r, q \in Reqs :
        (/\ Done(r, "verify") /\ Done(q, "check")
         /\ req[r].keyString = req[q].keyString
         /\ req[r].game = req[q].game
         /\ req[r].deviceId = req[q].deviceId
         /\ pre[r] = pre[q]
         /\ loc[r].now = loc[q].now
         /\ Conditions1to6(r))
        => /\ res[r].valid = res[q].valid
           /\ res[r].message = res[q].message

\* Both entry points refused an unseen device on a key whose slots are taken.
C15_Witness ==
    \E r, q \in Reqs :
        /\ Done(r, "verify") /\ Done(q, "check")
        /\ req[r].keyString = req[q].keyString
        /\ req[r].game = req[q].game
        /\ req[r].deviceId = req[q].deviceId
        /\ pre[r] = pre[q]
        /\ loc[r].now = loc[q].now
        /\ Says(r, FALSE, MsgLimit)
        /\ Says(q, FALSE, MsgLimit)

(***************************************************************************)
(* All the operations on keys, devices and credits, one client sending     *)
(* one request after the other.                                            *)
(***************************************************************************)
InitAllSeq ==
    /\ keys \in {<<ks[1]>> : ks \in {k \in InitKeys :
                                        /\ k[1].deviceLimit = 1
                                        /\ k[1].expiryDate = MaxTime}}
    /\ devices = {}
    /\ credits \in [Resellers -> 0..MaxCredits]
    /\ now = 0
    /\ InitRegistered
    /\ InitClients

NextAllSeq == Tick \/ VerifyStep(1) \/ IssueStep(1) \/ Return(1)

SpecAllSeq == InitAllSeq /\ [][NextAllSeq]_vars

C16_RevokedStays ==
    \A i \in KeyIds :
        keys[i].isRevoked => (i \in 1..Len(keys') /\ keys'[i].isRevoked)

\* C16: no step of any operation (verify, issuance, reseller or admin
\* revoke, device removal, credit grant) changes a key's revoked flag from
\* true to false, or drops a revoked key.
C16_RevokedMonotone == [][C16_RevokedStays]_vars

\* A key that was revoked already has been revoked again, and still is.
C16_Witness ==
    \E r \in Reqs :
        /\ Done(r, "admin_revoke")
        /\ res[r].success
        /\ pre[r].keys[req[r].keyId].isRevoked
        /\ keys[req[r].keyId].isRevoked

\* The request of r is a revoke of a key that exists: by the reseller who
\* owns it, or by the admin.
RevokesExisting(r) ==
    /\ req[r].keyId \in 1..Len(pre[r].keys)
    /\ \/ Done(r, "admin_revoke")
       \/ Done(r, "revoke") /\ pre[r].keys[req[r].keyId].resellerId = req[r].user

\* C17: revoking an existing key succeeds whether or not it was revoked
\* already and leaves the Key Store as it was but for revoked=true on that
\* key (so a second revoke changes nothing); it adds no Device record and
\* removes none, of that key or any other.
C17_RevokeIdempotent ==
    \A r \in Reqs :
        RevokesExisting(r)
            => /\ res[r].status = 200
               /\ res[r].success
               /\ keys = [pre[r].keys EXCEPT ![req[r].keyId].isRevoked = TRUE]
               /\ devices = pre[r].devices

\* The reseller revoked, a second time, a key that has a device bound.
C17_Witness ==
    \E r \in Reqs :
        /\ Done(r, "revoke")
        /\ res[r].success
        /\ pre[r].keys[req[r].keyId].isRevoked
        /\ keys = pre[r].keys
        /\ DevicesIn(devices, req[r].keyId) # {}

\* C18: a mutating or read-only verify of a revoked key, with the key's
\* game, from a device bound to the key since before the revocation,
\* returns valid=false with the 'revoked' reason, and the device's binding
\* is still in the Device Registry afterwards.
C18_RevokedKeyBoundDevice ==
    \A r \in Reqs :
        (/\ Done(r, "verify") \/ Done(r, "check")
         /\ MetKey(r).isRevoked
         /\ MetKey(r).game = req[r].game
         /\ Presented(r) \in MetDevices(r))
        => /\ Says(r, FALSE, MsgRevoked)
           /\ Presented(r) \in devices
           /\ devices = pre[r].devices

\* A bound device was refused on a revoked key that has not expired.
C18_Witness ==
    \E r \in Reqs :
        /\ Done(r, "verify")
        /\ MetKey(r).isRevoked
        /\ loc[r].now < MetKey(r).expiryDate
        /\ Presented(r) \in MetDevices(r)
        /\ Says(r, FALSE, MsgRevoked)
        /\ Presented(r) \in devices

\* Every Device record is bound to a key of the Key Store.
DevicesReferToKeys == \A d \in devices : \E i \in KeyIds : keys[i].id = d.keyId

MsgStoreFailure == "store failure"

\* storage.createKey throws in a turn of the loop: the handler's catch block
\* answers 400 with the error's message; the debit is never reached.
GenCreateKeyFails(r) ==
    /\ pc[r] = "gen_create"
    /\ Finish(r, Failure(400, MsgStoreFailure))
    /\ UNCHANGED <<keys, devices, credits, resellers, tokens, now, req, loc,
                   pre, first>>

NextIssueFaultSeq == IssueStep(1) \/ GenCreateKeyFails(1) \/ Return(1)

SpecIssueFaultSeq == InitIssue /\ [][NextIssueFaultSeq]_vars

\* C20: when the creation of a key of a batch fails after k keys of the
\* batch were created, the reseller's balance is debited by exactly k, the
\* number of keys of that request in the Key Store afterwards.
C20_PartialBatchDebitsCreated ==
    \A r \in Reqs :
        (Done(r, "generate") /\ res[r].message = MsgStoreFailure)
            => pre[r].credits[req[r].user] - credits[req[r].user]
                   = Len(keys) - Len(pre[r].keys)

\* The keys the request of r added to the Key Store.
CreatedBy(r) == {keys[i] : i \in (Len(pre[r].keys) + 1)..Len(keys)}

\* C21: a key generation that succeeds with count n (1 when the field is
\* absent) creates exactly n Key records, pairwise distinct in key string,
\* each owned by the requesting reseller, with the requested game,
\* deviceLimit and expiry and revoked=false; of a custom key string, the
\* first key created carries it and the others carry generated strings.
C21_BatchOfDistinctKeys ==
    \A r \in Reqs :
        (Done(r, "generate") /\ res[r].status = 201 /\ req[r].count >= 0)
        => /\ Len(keys) = Len(pre[r].keys) + effectiveCount(req[r].count)
           /\ \A i \in 1..Len(pre[r].keys) : keys[i] = pre[r].keys[i]
           /\ \A k \in CreatedBy(r) :
                 /\ k.resellerId = req[r].user
                 /\ k.game = req[r].game
                 /\ k.deviceLimit = req[r].deviceLimit
                 /\ k.expiryDate = req[r].expiryDate
                 /\ ~k.isRevoked
           /\ \A k1, k2 \in CreatedBy(r) : k1.keyString = k2.keyString => k1 = k2
           /\ req[r].keyString # <<>> =>
                 /\ keys[Len(pre[r].keys) + 1].keyString = req[r].keyString
                 /\ \A k \in CreatedBy(r) :
                       k.id # Len(pre[r].keys) + 1 => k.keyString # req[r].keyString

\* C22: when the mirroring of the issued keys to the reseller's file fails,
\* the request still answers with the success result and the keys, the keys
\* created stay in the Key Store and the debit stays applied.
C22_MirrorFailureIgnored ==
    \A r \in Reqs :
        (Done(r, "generate") /\ loc[r].mirror = "failed")
        => /\ res[r].status = 201
           /\ res[r].success
           /\ res[r].keys = loc[r].generatedKeys
           /\ {k.id : k \in CreatedBy(r)} = {res[r].keys[i] : i \in 1..Len(res[r].keys)}
           /\ Len(keys) = Len(pre[r].keys) + Len(loc[r].generatedKeys)
           /\ credits = [pre[r].credits EXCEPT ![req[r].user] = @ - loc[r].count]

\* A batch of two keys was issued and paid for, the file was not written.
C22_Witness ==
    \E r \in Reqs :
        /\ Done(r, "generate")
        /\ loc[r].mirror = "failed"
        /\ res[r].status = 201
        /\ Len(res[r].keys) = 2
        /\ credits[req[r].user] = pre[r].credits[req[r].user] - 2

\* C23: every verify call, mutating or read-only, for a supported game ends
\* with one of the defined verdicts (not found, wrong game, revoked,
\* expired, valid, device limit reached) as an ordinary result, never with
\* an error outcome, also when verify calls are in flight together.
C23_VerifyNeverErrors ==
    \A r \in Reqs :
        ((Done(r, "verify") \/ Done(r, "check")) /\ req[r].game \in Games)
        => /\ res[r].status = 200
           /\ res[r].message \in {MsgNotFound, MsgWrongGame, MsgRevoked,
                                  MsgExpired, MsgValid, MsgCanRegister, MsgLimit}

\* C24: two mutating verify calls in a row with the same key string, game
\* and device, no other operation and no crossing of the expiry between
\* them, return the same valid flag and the same currentDevices, also when
\* the first of them registers the device.
C24_ConsecutiveVerifiesAgree ==
    \A r \in Reqs :
        (/\ Done(r, "verify")
         /\ first.sent
         /\ first.req = req[r]
         /\ (first.now < MetKey(r).expiryDate) = (loc[r].now < MetKey(r).expiryDate))
        => /\ res[r].valid = first.res.valid
           /\ res[r].currentDevices = first.res.currentDevices

\* The first call registered the device, the second found it bound.
C24_Witness ==
    \E r \in Reqs :
        /\ Done(r, "verify")
        /\ first.sent
        /\ first.req = req[r]
        /\ Presented(r) \notin first.devices
        /\ Presented(r) \in MetDevices(r)
        /\ first.res.valid
        /\ res[r].valid
        /\ res[r].currentDevices = first.res.currentDevices

\* The record a device removal names.
Removed(request) ==
    [keyId |-> request.keyId, deviceId |-> request.deviceId, nth |-> 0]

C25_RemovesExactlyTheRecord ==
    \A r \in Reqs :
        (Done(r, "remove") /\ res[r].success)
        => /\ Removed(req[r]) \in pre[r].devices
           /\ devices = pre[r].devices \ {Removed(req[r])}
           /\ Cardinality(DevicesIn(devices, req[r].keyId))
                 = Cardinality(DevicesIn(pre[r].devices, req[r].keyId)) - 1

C25_FreedSlotIsUsable ==
    \A r \in Reqs :
        (/\ Done(r, "verify")
         /\ first.sent
         /\ first.req.op = "remove"
         /\ MetKey(r).id = first.req.keyId
         /\ Cardinality(DevicesIn(first.devices, first.req.keyId))
               = MetKey(r).deviceLimit
         /\ MetKey(r).game = req[r].game
         /\ ~MetKey(r).isRevoked
         /\ loc[r].now < MetKey(r).expiryDate
         /\ Presented(r) \notin MetDevices(r))
        => /\ Says(r, TRUE, MsgValid)
           /\ res[r].currentDevices = MetKey(r).deviceLimit
           /\ devices = pre[r].devices \cup {Presented(r)}

\* C25: a reseller's device removal that succeeds deletes exactly the
\* record (deviceId, keyId) and lowers the key's device count by one; when
\* the key was at its device limit and is still valid, the mutating verify
\* that follows, from a device not bound to the key, registers the device
\* and returns valid=true.
C25_RemovalFreesSlot == C25_RemovesExactlyTheRecord /\ C25_FreedSlotIsUsable

\* A key of two slots was full, one device was removed, another took its place.
C25_Witness ==
    \E r \in Reqs :
        /\ Done(r, "verify")
        /\ first.sent
        /\ first.req.op = "remove"
        /\ MetKey(r).id = first.req.keyId
        /\ MetKey(r).deviceLimit = 2
        /\ Cardinality(DevicesIn(first.devices, first.req.keyId)) = 2
        /\ req[r].deviceId # first.req.deviceId
        /\ Presented(r) \notin MetDevices(r)
        /\ Says(r, TRUE, MsgValid)
        /\ Cardinality(DevicesIn(devices, MetKey(r).id)) = 2

UpperCaseOrDigit ==
    {UpperCase[i] : i \in 1..Len(UpperCase)} \cup {Digits[i] : i \in 1..Len(Digits)}

\* A 4-character prefix, then three times a "-" and a segment.
WellFormed(keyString, game) ==
    LET prefix == keyPrefix(game)
    IN  /\ Len(prefix) = 4
        /\ Len(keyString) = Len(prefix) + 3 * (SegmentLength + 1)
        /\ SubSeq(keyString, 1, Len(prefix)) = prefix
        /\ \A i \in (Len(prefix) + 1)..Len(keyString) :
              IF (i - Len(prefix) - 1) % (SegmentLength + 1) = 0
              THEN keyString[i] = "-"
              ELSE keyString[i] \in UpperCaseOrDigit

\* C26: every key string generateKeyString produces for a supported game is
\* the game's 4-character prefix (PBGM, LIOS or STDF), a '-', and three
\* segments of 5 characters joined by '-', every character of a segment
\* being an uppercase letter or a digit.
C26_GeneratedKeyStringFormat ==
    \A r \in Reqs :
        (Done(r, "generate") /\ res[r].status = 201)
        => \A k \in CreatedBy(r) :
              (k.game \in Games /\ k.keyString # req[r].keyString)
              => WellFormed(k.keyString, k.game)

\* The symbols a segment's character is drawn from, after upper-casing.
SegmentAlphabet == {toUpperCaseChar(urlAlphabet[i]) : i \in 1..Len(urlAlphabet)}

\* C27: a segment of a generated key can take at least 10^9 distinct values:
\* of a key string the generator produced, the size of the segment alphabet
\* after upper-casing, raised to the segment length, is at least 10^9.
C27_SegmentValuesAtLeast1e9 ==
    \A r \in Reqs :
        (Done(r, "generate") /\ res[r].status = 201
            /\ \E k \in CreatedBy(r) : k.keyString # req[r].keyString)
        => Cardinality(SegmentAlphabet) ^ SegmentLength >= 10 ^ 9

\* C28: the admin credit adjustment for an existing reseller changes that
\* reseller's balance by exactly the given amount and no other reseller's
\* balance; for an absent reseller id it fails with 'Reseller not found' and
\* changes no balance.
C28_CreditAdjustment ==
    \A r \in Reqs :
        Done(r, "credits")
        => IF req[r].user \in DOMAIN pre[r].credits
           THEN /\ res[r].status = 200
                /\ res[r].success
                /\ credits = [pre[r].credits EXCEPT
                                 ![req[r].user] = @ + req[r].amount]
           ELSE /\ res[r].status = 404
                /\ res[r].message = MsgResellerNotFound
                /\ credits = pre[r].credits

\* A grant to a reseller has been answered while another holds credits.
C28_Witness ==
    \E r \in Reqs :
        /\ Done(r, "credits")
        /\ res[r].success
        /\ credits[req[r].user] = pre[r].credits[req[r].user] + req[r].amount
        /\ \E s \in DOMAIN credits : s # req[r].user /\ credits[s] > 0

\* The revoked flag of every key is as it was when the request of r arrived.
FlagsUnchanged(r) ==
    /\ Len(keys) = Len(pre[r].keys)
    /\ \A i \in 1..Len(keys) : keys[i].isRevoked = pre[r].keys[i].isRevoked

\* C29: revoking a key id that is not in the Key Store (admin route), or that
\* is not among the requesting reseller's keys (reseller route), returns the
\* not-found result and changes the revoked flag of no key.
C29_RevokeNotFound ==
    \A r \in Reqs :
        /\ (Done(r, "admin_revoke")
              /\ ~\E i \in 1..Len(pre[r].keys) : pre[r].keys[i].id = req[r].keyId)
           => /\ res[r].status = 404
              /\ res[r].message = MsgKeyNotFound
              /\ FlagsUnchanged(r)
        /\ (Done(r, "revoke")
              /\ ~\E i \in 1..Len(pre[r].keys) :
                     /\ pre[r].keys[i].id = req[r].keyId
                     /\ pre[r].keys[i].resellerId = req[r].user)
           => /\ res[r].status = 404
              /\ res[r].message = MsgKeyNotYours
              /\ FlagsUnchanged(r)

\* A reseller asked to revoke a live key of another reseller and was answered.
C29_Witness ==
    \E r \in Reqs :
        /\ Done(r, "revoke")
        /\ \E i \in 1..Len(pre[r].keys) :
              /\ pre[r].keys[i].id = req[r].keyId
              /\ pre[r].keys[i].resellerId # req[r].user
              /\ ~pre[r].keys[i].isRevoked
        /\ res[r].status = 404

\* The reseller of the request of r owned the key it names when it arrived.
OwnedKey(r) ==
    \E i \in 1..Len(pre[r].keys) :
        /\ pre[r].keys[i].id = req[r].keyId
        /\ pre[r].keys[i].resellerId = req[r].user

\* C30: removing a (deviceId, keyId) pair that is not in the Device Registry
\* yields the negative 'Device not found' result, not an exception, and
\* leaves the Device Registry unchanged.
C30_RemoveAbsentPair ==
    \A r \in Reqs :
        (/\ Done(r, "remove")
         /\ OwnedKey(r)
         /\ devicesOfPair(pre[r].devices, req[r].keyId, req[r].deviceId) = {})
        => /\ res[r].status = 404
           /\ ~res[r].success
           /\ res[r].message = MsgDeviceNotFound
           /\ devices = pre[r].devices

\* A reseller asked to remove, from a key of its own that binds another
\* device, a device the key does not bind, and was answered.
C30_Witness ==
    \E r \in Reqs :
        /\ Done(r, "remove")
        /\ OwnedKey(r)
        /\ devicesOfPair(pre[r].devices, req[r].keyId, req[r].deviceId) = {}
        /\ DevicesIn(pre[r].devices, req[r].keyId) # {}
        /\ res[r].message = MsgDeviceNotFound

\* C31: whatever the count field of a key-generation request (absent, zero,
\* negative or positive), no reseller's balance is higher after the request
\* than it was before it.
C31_IssuanceOnlyDebits ==
    \A r \in Reqs :
        Done(r, "generate")
        => \A s \in DOMAIN credits : credits[s] <= pre[r].credits[s]

\* The four failure conditions of the key generation of r, in the stores as
\* they were when the request arrived.
InvalidGame(r) == req[r].game \notin Games

CustomKeyExists(r) ==
    req[r].keyString # <<>> /\ KeyIn(pre[r].keys, req[r].keyString) # NoKey

ResellerMissing(r) == req[r].user \notin DOMAIN pre[r].credits

CreditsShort(r) ==
    /\ ~ResellerMissing(r)
    /\ pre[r].credits[req[r].user] < effectiveCount(req[r].count)

Refused(r, status, message) ==
    /\ res[r].status = status
    /\ res[r].message = message
    /\ keys = pre[r].keys
    /\ credits = pre[r].credits

\* C32: key generation reports the first failure condition that holds, in
\* the order invalid game, custom key string exists, reseller not found,
\* insufficient credits, and a request that fails has created no key and
\* debited no credit.
C32_FirstFailureReported ==
    \A r \in Reqs :
        Done(r, "generate")
        => IF InvalidGame(r) THEN Refused(r, 400, MsgInvalidGameSelection)
           ELSE IF CustomKeyExists(r) THEN Refused(r, 400, MsgKeyExists)
           ELSE IF ResellerMissing(r) THEN Refused(r, 404, MsgResellerNotFound)
           ELSE IF CreditsShort(r) THEN Refused(r, 400, MsgInsufficient)
           ELSE res[r].status = 201

\* Before the four checks have passed no step creates a key or changes a
\* balance: such a step is taken by a request that has entered the loop.
C32_NoEffectBeforeChecks ==
    [][(keys' # keys \/ credits' # credits)
       => \E r \in Reqs : pc[r] \in {"gen_create", "gen_debit", "credits_update"}]_vars

C32_ChecksInOrder == []C32_FirstFailureReported /\ C32_NoEffectBeforeChecks

\* A request with an unsupported game, a custom key string that exists and
\* a balance too low was answered.
C32_Witness ==
    \E r \in Reqs :
        /\ Done(r, "generate")
        /\ InvalidGame(r)
        /\ CustomKeyExists(r)
        /\ CreditsShort(r)
        /\ res[r].message = MsgInvalidGameSelection

\* C33: the remainingCredits a successful key generation returns is the
\* reseller's stored balance right after that request's debit, whatever
\* other key generations or credit grants for the reseller run meanwhile.
C33_RemainingCreditsIsBalance ==
    [][\A r \in Reqs :
          (pc[r] = "gen_debit" /\ pc'[r] = "done" /\ res'[r].status = 201)
          => res'[r].remainingCredits = credits'[req[r].user]]_vars

\* C34: the currentDevices a mutating verify returns when it registers a new
\* device is the number of Device records bound to the key right after that
\* registration, whatever other verifies or device removals for the key run
\* meanwhile.
C34_CurrentDevicesIsCount ==
    [][\A r \in Reqs :
          (pc[r] = "verify_add" /\ pc'[r] = "done" /\ res'[r].valid)
          => res'[r].currentDevices
                = Cardinality({d \in devices' : d.keyId = loc[r].key.id})]_vars

\* The step is one of the mutating verify call of r.
VerifyStepOf(r) == pc'[r] # pc[r] /\ req'[r].op = "verify"

\* The step adds one Device record, that of the key and the device of the
\* request of r, to a registry that has none for the pair, and answers valid.
AddsOnlyItsRecord(r) ==
    LET key == KeyIn(keys, req'[r].keyString)
    IN  /\ key # NoKey
        /\ devicesOfPair(devices, key.id, req'[r].deviceId) = {}
        /\ devices' = devices \cup {[keyId |-> key.id,
                                     deviceId |-> req'[r].deviceId, nth |-> 0]}
        /\ res'[r].valid

\* C35: a mutating verify call for key K with deviceId d changes no key, no
\* balance and no device of another key; all it may change is to add the
\* one Device record (K, d), and it adds nothing when its verdict is invalid
\* or the device was already bound.
C35_VerifyFrame ==
    [][\A r \in Reqs :
          VerifyStepOf(r)
          => /\ keys' = keys
             /\ credits' = credits
             /\ resellers' = resellers
             /\ tokens' = tokens
             /\ (devices' = devices \/ AddsOnlyItsRecord(r))]_vars

\* A verify registered its device on a key while another key binds devices.
C35_Witness ==
    \E r \in Reqs :
        /\ Done(r, "verify")
        /\ Says(r, TRUE, MsgValid)
        /\ Presented(r) \notin pre[r].devices
        /\ Presented(r) \in devices
        /\ \E d \in devices : d.keyId # MetKey(r).id

\* The key the request of r names was, when it arrived, a key of another
\* reseller.
OthersKey(r) ==
    \E i \in 1..Len(pre[r].keys) :
        /\ pre[r].keys[i].id = req[r].keyId
        /\ pre[r].keys[i].resellerId # req[r].user

\* C36: a reseller's revoke or device-removal request that names a key owned
\* by another reseller returns not found and leaves that key's revoked flag
\* and device set unchanged.
C36_OnlyOwnKeys ==
    \A r \in Reqs :
        ((Done(r, "revoke") \/ Done(r, "remove")) /\ OthersKey(r))
        => /\ res[r].status = 404
           /\ ~res[r].success
           /\ res[r].message = MsgKeyNotYours
           /\ \A i \in 1..Len(pre[r].keys) :
                 pre[r].keys[i].id = req[r].keyId
                 => keys[i].isRevoked = pre[r].keys[i].isRevoked
           /\ DevicesIn(devices, req[r].keyId)
                 = DevicesIn(pre[r].devices, req[r].keyId)

\* A reseller asked to remove a device that a key of another reseller binds,
\* and was answered.
C36_Witness ==
    \E r \in Reqs :
        /\ Done(r, "remove")
        /\ OthersKey(r)
        /\ devicesOfPair(pre[r].devices, req[r].keyId, req[r].deviceId) # {}
        /\ res[r].status = 404

\* C37: after a key is created no operation changes its key string, game,
\* owning reseller id, deviceLimit or expiry timestamp: every step keeps
\* every key of the Key Store, in its place, the same but for its revoked
\* flag.
C37_KeyFieldsImmutable ==
    [][/\ Len(keys') >= Len(keys)
       /\ \A i \in 1..Len(keys) :
             keys'[i] = [keys[i] EXCEPT !.isRevoked = keys'[i].isRevoked]]_vars

\* A key that a generation created has been revoked by its reseller.
C37_Witness ==
    \E r \in Reqs :
        /\ Done(r, "revoke")
        /\ res[r].success
        /\ req[r].keyId \in 1..Len(keys)
        /\ keys[req[r].keyId].keyString \notin PresentedKeys
        /\ ~pre[r].keys[req[r].keyId].isRevoked
        /\ keys[req[r].keyId].isRevoked

====
